---- MODULE Spec2Model ----
(***************************************************************************)
(* Model of mclf/curves/curves_over_number_fields.py:                      *)
(* CurveOverNumberField.semistable_model, .reduction_type and              *)
(* .conductor_exponent, with the per-curve dictionary _semistable_models.  *)
(*                                                                         *)
(* Python objects with identity (dictionaries, SemistableModel handles)    *)
(* live in a heap and are referred to by identifier, so that aliasing      *)
(* (ss_models = self._semistable_models) is a shared reference and         *)
(* ss_models = {} is a fresh object.  Each call is executed line by line   *)
(* by a caller; Spec runs one caller (sequential use), ConcSpec two.       *)
(***************************************************************************)
EXTENDS Integers, Sequences, FiniteSets, TLC

\* ---------------------------------------------------------------- bounds
MaxCalls == 3          \* number of calls started in one behaviour
MaxExp   == 1          \* conductor exponents range over 0..MaxExp

\* ------------------------------------------------------------ the universe
Curves     == {"A", "B"}
Fields     == {"QQ", "K"}
Threads    == {1, 2}
SeqThreads == {1}
\* Keys are used verbatim: an integer and an ideal of the same prime are
\* different keys.  <<"int", 4>> is not a prime.
Keys       == {<<"int", 2>>, <<"ideal", 2>>, <<"int", 3>>, <<"int", 4>>}
DictIds    == 1 .. (Cardinality(Curves) + Cardinality(Threads))
NoDict     == 0
NoVal      == 0
EmptyDict  == << >>
NoHandle   == [id |-> 0, curve |-> "none", vp |-> 0, exp |-> 0]
NoCall     == [op |-> "none", curve |-> "none", p |-> <<"none", 0>>]
NoResult   == [kind |-> "none", handle |-> NoHandle, value |-> 0, error |-> "none"]

VARIABLES
  baseField,   \* baseField[c]: what c.constant_base_field() returns
  attr,        \* attr[c]: the dictionary c._semistable_models refers to, NoDict if no such attribute
  heap,        \* heap[d]: contents of the live dictionary object d (key -> handle)
  nextHandle,  \* identity of the next SemistableModel object
  calls,       \* number of calls started
  pc,          \* pc[t]: the line caller t is at
  call,        \* call[t]: the operation, curve and argument of t's call
  ss,          \* ss[t]: local ss_models (a dictionary reference)
  vp,          \* vp[t]: local vp
  tmp,         \* tmp[t]: value just built / returned by the inner call
  result,      \* result[t]: outcome of t's last call
  trace,       \* trace[t]: collaborator invocations and cache writes of t's call, in order
  preMap,      \* preMap[t]: every curve's mapping when t's call started
  built,       \* built[c][p]: number of handles the model builder constructed for (c, p)
  first,       \* first[c][p]: handle returned by the first successful semistable_model(p) on c
  failed       \* the <<c, p>> for which a collaborator raised during a call on c for p

vars == <<baseField, attr, heap, nextHandle, calls, pc, call, ss, vp, tmp,
          result, trace, preMap, built, first, failed>>

\* ------------------------------------------------------------ pure helpers
Range(f) == {f[x] : x \in DOMAIN f}

Min(S) == CHOOSE x \in S : \A y \in S : x <= y

Ev(kind, c, p, v, hid) == [ev |-> kind, curve |-> c, key |-> p, v |-> v, hid |-> hid]

\* Variant: the base-field guard is missing.
IsQQ_Always(c) == TRUE

\* `K is QQ`
IsQQ(c) == baseField[c] = "QQ"

\* Variant: the attribute is never found, every call starts from {}.
HasAttr_Never(c) == FALSE

\* hasattr(self, "_semistable_models")
HasAttr(c) == attr[c] # NoDict

\* The curve's mapping as a value: "absent" when the attribute does not exist.
MappingOf(at, hp, c) == IF at[c] = NoDict THEN [absent |-> TRUE, d |-> EmptyDict]
                        ELSE [absent |-> FALSE, d |-> hp[at[c]]]

Mapping(c) == MappingOf(attr, heap, c)

KeysOf(c) == DOMAIN Mapping(c).d

\* Variant: the store replaces the dictionary's contents by the one entry.
DictStore_Replace(d, p, h) == [k \in {p} |-> h]

\* Variant: the store keeps an entry that is already there (setdefault).
DictStore_KeepFirst(d, p, h) == [k \in (DOMAIN d) \cup {p} |-> IF k \in DOMAIN d THEN d[k] ELSE h]

\* ss_models[p] = h  (in-place update of one dictionary)
DictStore(d, p, h) == [k \in (DOMAIN d) \cup {p} |-> IF k = p THEN h ELSE d[k]]

\* Variant: the lookup never hits.
InKeys_Never(d, p) == FALSE

\* p in ss_models.keys(): the key type's own equality, no normalization
InKeys(d, p) == p \in DOMAIN d

\* Variant: the exponent is not taken from the handle.
ConductorExponent_Zero(hd) == 0

\* <model>.conductor_exponent(): a query of the handle, without side effects
ConductorExponent(hd) == hd.exp

\* QQ.valuation(p): defined for primes only
IsPrime(n) == n > 1 /\ \A d \in 2 .. (n - 1) : n % d # 0

\* Variant: the valuation is built at a fixed prime, not at p.
Valuation_Fixed(p) == IF IsPrime(p[2]) THEN 2 ELSE NoVal

\* line 86's collaborator
Valuation(p) == IF IsPrime(p[2]) THEN p[2] ELSE NoVal

\* Dictionaries no reference reaches are reclaimed.
Collect(hp, at, loc) == [d \in {x \in DOMAIN hp : x \in Range(at) \cup Range(loc)} |-> hp[d]]

FreshDict == Min(DictIds \ DOMAIN heap)

\* ------------------------------------------------------------ initial state
Init ==
  /\ baseField \in [Curves -> Fields]
  /\ attr = [c \in Curves |-> NoDict]
  /\ heap = << >>
  /\ nextHandle = 1
  /\ calls = 0
  /\ pc = [t \in Threads |-> "idle"]
  /\ call = [t \in Threads |-> NoCall]
  /\ ss = [t \in Threads |-> NoDict]
  /\ vp = [t \in Threads |-> NoVal]
  /\ tmp = [t \in Threads |-> NoHandle]
  /\ result = [t \in Threads |-> NoResult]
  /\ trace = [t \in Threads |-> << >>]
  /\ preMap = [t \in Threads |-> [c \in Curves |-> Mapping(c)]]
  /\ built = [c \in Curves |-> [p \in Keys |-> 0]]
  /\ first = [c \in Curves |-> [p \in Keys |-> NoHandle]]
  /\ failed = {}

\* ------------------------------------------------------- leaving a function
\* What QQ.valuation and SemistableModel raise, as opposed to this module's own
\* NotImplementedError.
CollaboratorErrors == {"ValueError", "BuilderError"}

\* Variant: the error is swallowed and the call returns nothing.
Raise_Swallow(t, err, tr) ==
  LET ss2 == [ss EXCEPT ![t] = NoDict] IN
  /\ pc' = [pc EXCEPT ![t] = "done"]
  /\ result' = [result EXCEPT ![t] = [NoResult EXCEPT !.kind = "returned"]]
  /\ ss' = ss2
  /\ vp' = [vp EXCEPT ![t] = NoVal]
  /\ tmp' = [tmp EXCEPT ![t] = NoHandle]
  /\ heap' = Collect(heap, attr, ss2)
  /\ trace' = [trace EXCEPT ![t] = tr]
  /\ UNCHANGED <<baseField, attr, nextHandle, calls, call, preMap, built, first, failed>>

\* Variant: the dictionary in hand is assigned to the curve on the way out
\* (as a finally clause would), also when the call fails.
Raise_Finally(t, err, tr) ==
  LET ss2   == [ss EXCEPT ![t] = NoDict]
      attr2 == IF ss[t] # NoDict THEN [attr EXCEPT ![call[t].curve] = ss[t]] ELSE attr IN
  /\ pc' = [pc EXCEPT ![t] = "done"]
  /\ result' = [result EXCEPT ![t] = [NoResult EXCEPT !.kind = "raised", !.error = err]]
  /\ ss' = ss2
  /\ vp' = [vp EXCEPT ![t] = NoVal]
  /\ tmp' = [tmp EXCEPT ![t] = NoHandle]
  /\ attr' = attr2
  /\ heap' = Collect(heap, attr2, ss2)
  /\ trace' = [trace EXCEPT ![t] = tr]
  /\ failed' = IF err \in {"ValueError", "BuilderError"}
                 THEN failed \cup {<<call[t].curve, call[t].p>>} ELSE failed
  /\ UNCHANGED <<baseField, nextHandle, calls, call, preMap, built, first>>

\* A `raise` that leaves the call of caller t with error err; tr is the
\* call's trace so far.  The frame's locals die with it.
Raise(t, err, tr) ==
  LET ss2 == [ss EXCEPT ![t] = NoDict] IN
  /\ pc' = [pc EXCEPT ![t] = "done"]
  /\ result' = [result EXCEPT ![t] = [NoResult EXCEPT !.kind = "raised", !.error = err]]
  /\ ss' = ss2
  /\ vp' = [vp EXCEPT ![t] = NoVal]
  /\ tmp' = [tmp EXCEPT ![t] = NoHandle]
  /\ heap' = Collect(heap, attr, ss2)
  /\ trace' = [trace EXCEPT ![t] = tr]
  /\ failed' = IF err \in CollaboratorErrors
                 THEN failed \cup {<<call[t].curve, call[t].p>>} ELSE failed
  /\ UNCHANGED <<baseField, attr, nextHandle, calls, call, preMap, built, first>>

\* `return hd` from semistable_model: to the user, or to line 119 when the
\* call came from conductor_exponent.
ReturnHandle(t, hd) ==
  LET c   == call[t].curve
      p   == call[t].p
      ss2 == [ss EXCEPT ![t] = NoDict] IN
  /\ IF call[t].op = "conductor_exponent"
       THEN /\ pc' = [pc EXCEPT ![t] = "L119"]
            /\ tmp' = [tmp EXCEPT ![t] = hd]
            /\ result' = result
       ELSE /\ pc' = [pc EXCEPT ![t] = "done"]
            /\ tmp' = [tmp EXCEPT ![t] = NoHandle]
            /\ result' = [result EXCEPT ![t] = [NoResult EXCEPT !.kind = "returned", !.handle = hd]]
  /\ first' = IF first[c][p] = NoHandle THEN [first EXCEPT ![c][p] = hd] ELSE first
  /\ ss' = ss2
  /\ vp' = [vp EXCEPT ![t] = NoVal]
  /\ heap' = Collect(heap, attr, ss2)
  /\ UNCHANGED <<baseField, attr, nextHandle, calls, call, trace, preMap, built, failed>>

\* ------------------------------------------------------------------ actions
\* A caller starts semistable_model(p) or conductor_exponent(p) on curve c.
Call(t) ==
  /\ pc[t] \in {"idle", "done"}
  /\ calls < MaxCalls
  /\ \E c \in Curves, p \in Keys, op \in {"semistable_model", "conductor_exponent"} :
       /\ call' = [call EXCEPT ![t] = [op |-> op, curve |-> c, p |-> p]]
       /\ preMap' = [preMap EXCEPT ![t] = [x \in Curves |-> Mapping(x)]]
  /\ calls' = calls + 1
  /\ pc' = [pc EXCEPT ![t] = "L76"]
  /\ result' = [result EXCEPT ![t] = NoResult]
  /\ trace' = [trace EXCEPT ![t] = << >>]
  /\ UNCHANGED <<baseField, attr, heap, nextHandle, ss, vp, tmp, built, first, failed>>

\* Variant: reduction_type goes through the semistable model instead of raising.
ReductionType_Delegates(t) ==
  /\ pc[t] \in {"idle", "done"}
  /\ calls < MaxCalls
  /\ \E c \in Curves, p \in Keys :
       /\ call' = [call EXCEPT ![t] = [op |-> "reduction_type", curve |-> c, p |-> p]]
       /\ preMap' = [preMap EXCEPT ![t] = [x \in Curves |-> Mapping(x)]]
  /\ calls' = calls + 1
  /\ pc' = [pc EXCEPT ![t] = "L76"]
  /\ result' = [result EXCEPT ![t] = NoResult]
  /\ trace' = [trace EXCEPT ![t] = << >>]
  /\ UNCHANGED <<baseField, attr, heap, nextHandle, ss, vp, tmp, built, first, failed>>

\* reduction_type(p): the whole method is one raise.
ReductionType(t) ==
  /\ pc[t] \in {"idle", "done"}
  /\ calls < MaxCalls
  /\ \E c \in Curves, p \in Keys :
       /\ call' = [call EXCEPT ![t] = [op |-> "reduction_type", curve |-> c, p |-> p]]
       /\ preMap' = [preMap EXCEPT ![t] = [x \in Curves |-> Mapping(x)]]
  /\ calls' = calls + 1
  /\ pc' = [pc EXCEPT ![t] = "done"]
  /\ result' = [result EXCEPT ![t] = [NoResult EXCEPT !.kind = "raised", !.error = "NotImplementedError"]]
  /\ trace' = [trace EXCEPT ![t] = << >>]
  /\ UNCHANGED <<baseField, attr, heap, nextHandle, ss, vp, tmp, built, first, failed>>

\* lines 76-78: K = self.constant_base_field(); if not K is QQ: raise
CheckBaseField(t) ==
  /\ pc[t] = "L76"
  /\ IF ~IsQQ(call[t].curve)
       THEN Raise(t, "NotImplementedError", trace[t])
       ELSE /\ pc' = [pc EXCEPT ![t] = "L79"]
            /\ UNCHANGED <<baseField, attr, heap, nextHandle, calls, call, ss, vp, tmp,
                           result, trace, preMap, built, first, failed>>

\* Variant: a missing attribute is created at once, empty.
GetMapping_Eager(t) ==
  /\ pc[t] = "L79"
  /\ IF HasAttr(call[t].curve)
       THEN /\ ss' = [ss EXCEPT ![t] = attr[call[t].curve]]
            /\ heap' = heap
            /\ attr' = attr
       ELSE /\ ss' = [ss EXCEPT ![t] = FreshDict]
            /\ heap' = [d \in (DOMAIN heap) \cup {FreshDict} |->
                          IF d = FreshDict THEN EmptyDict ELSE heap[d]]
            /\ attr' = [attr EXCEPT ![call[t].curve] = FreshDict]
  /\ pc' = [pc EXCEPT ![t] = "L83"]
  /\ UNCHANGED <<baseField, nextHandle, calls, call, vp, tmp,
                 result, trace, preMap, built, first, failed>>

\* Variant: the call works on a copy of the curve's dictionary.
GetMapping_Copy(t) ==
  /\ pc[t] = "L79"
  /\ ss' = [ss EXCEPT ![t] = FreshDict]
  /\ heap' = [d \in (DOMAIN heap) \cup {FreshDict} |->
                IF d = FreshDict
                  THEN (IF HasAttr(call[t].curve) THEN heap[attr[call[t].curve]] ELSE EmptyDict)
                  ELSE heap[d]]
  /\ pc' = [pc EXCEPT ![t] = "L83"]
  /\ UNCHANGED <<baseField, attr, nextHandle, calls, call, vp, tmp,
                 result, trace, preMap, built, first, failed>>

\* lines 79-82: ss_models is the curve's dictionary, or a fresh empty one
GetMapping(t) ==
  /\ pc[t] = "L79"
  /\ IF HasAttr(call[t].curve)
       THEN /\ ss' = [ss EXCEPT ![t] = attr[call[t].curve]]
            /\ heap' = heap
       ELSE /\ ss' = [ss EXCEPT ![t] = FreshDict]
            /\ heap' = [d \in (DOMAIN heap) \cup {FreshDict} |->
                          IF d = FreshDict THEN EmptyDict ELSE heap[d]]
  /\ pc' = [pc EXCEPT ![t] = "L83"]
  /\ UNCHANGED <<baseField, attr, nextHandle, calls, call, vp, tmp,
                 result, trace, preMap, built, first, failed>>

\* Variant: a hit returns some stored handle, not necessarily the one of p.
Lookup_AnyEntry(t) ==
  /\ pc[t] = "L83"
  /\ IF InKeys(heap[ss[t]], call[t].p)
       THEN \E k \in DOMAIN heap[ss[t]] : ReturnHandle(t, heap[ss[t]][k])
       ELSE /\ pc' = [pc EXCEPT ![t] = "L86"]
            /\ UNCHANGED <<baseField, attr, heap, nextHandle, calls, call, ss, vp, tmp,
                           result, trace, preMap, built, first, failed>>

\* lines 83-85: if p in ss_models.keys(): return ss_models[p]
Lookup(t) ==
  /\ pc[t] = "L83"
  /\ IF InKeys(heap[ss[t]], call[t].p)
       THEN ReturnHandle(t, heap[ss[t]][call[t].p])
       ELSE /\ pc' = [pc EXCEPT ![t] = "L86"]
            /\ UNCHANGED <<baseField, attr, heap, nextHandle, calls, call, ss, vp, tmp,
                           result, trace, preMap, built, first, failed>>

\* line 86: vp = QQ.valuation(p)
MakeValuation(t) ==
  LET c  == call[t].curve
      p  == call[t].p
      v  == Valuation(p)
      tr == Append(trace[t], Ev("valuation", c, p, v, 0)) IN
  /\ pc[t] = "L86"
  /\ IF v = NoVal
       THEN Raise(t, "ValueError", tr)
       ELSE /\ vp' = [vp EXCEPT ![t] = v]
            /\ trace' = [trace EXCEPT ![t] = tr]
            /\ pc' = [pc EXCEPT ![t] = "L87"]
            /\ UNCHANGED <<baseField, attr, heap, nextHandle, calls, call, ss, tmp,
                           result, preMap, built, first, failed>>

\* line 87, right-hand side: SemistableModel(self, vp) returns a new object
\* with its own conductor exponent, or raises.
BuildModel(t) ==
  LET c == call[t].curve
      p == call[t].p IN
  /\ pc[t] = "L87"
  /\ \/ \E e \in 0 .. MaxExp :
          LET hd == [id |-> nextHandle, curve |-> c, vp |-> vp[t], exp |-> e] IN
          /\ tmp' = [tmp EXCEPT ![t] = hd]
          /\ nextHandle' = nextHandle + 1
          /\ built' = [built EXCEPT ![c][p] = @ + 1]
          /\ trace' = [trace EXCEPT ![t] = Append(@, Ev("build", c, p, vp[t], nextHandle))]
          /\ pc' = [pc EXCEPT ![t] = "L87s"]
          /\ UNCHANGED <<baseField, attr, heap, calls, call, ss, vp, result, preMap, first, failed>>
     \/ Raise(t, "BuilderError", Append(trace[t], Ev("build", c, p, vp[t], 0)))

\* line 87, assignment: ss_models[p] = <the new model>
StoreModel(t) ==
  LET c == call[t].curve
      p == call[t].p IN
  /\ pc[t] = "L87s"
  /\ heap' = [heap EXCEPT ![ss[t]] = DictStore(@, p, tmp[t])]
  /\ trace' = [trace EXCEPT ![t] = Append(@, Ev("store", c, p, vp[t], tmp[t].id))]
  /\ tmp' = [tmp EXCEPT ![t] = NoHandle]
  /\ pc' = [pc EXCEPT ![t] = "L88"]
  /\ UNCHANGED <<baseField, attr, nextHandle, calls, call, ss, vp, result, preMap, built, first, failed>>

\* Variant: the dictionary is assigned to the class, so every curve sees it.
SetAttr_Class(t) ==
  LET attr2 == [x \in Curves |-> ss[t]] IN
  /\ pc[t] = "L88"
  /\ attr' = attr2
  /\ heap' = Collect(heap, attr2, ss)
  /\ pc' = [pc EXCEPT ![t] = "L89"]
  /\ UNCHANGED <<baseField, nextHandle, calls, call, ss, vp, tmp, result, trace, preMap, built, first, failed>>

\* line 88: self._semistable_models = ss_models
SetAttr(t) ==
  LET attr2 == [attr EXCEPT ![call[t].curve] = ss[t]] IN
  /\ pc[t] = "L88"
  /\ attr' = attr2
  /\ heap' = Collect(heap, attr2, ss)
  /\ pc' = [pc EXCEPT ![t] = "L89"]
  /\ UNCHANGED <<baseField, nextHandle, calls, call, ss, vp, tmp, result, trace, preMap, built, first, failed>>

\* line 89: return ss_models[p]
ReturnStored(t) ==
  /\ pc[t] = "L89"
  /\ ReturnHandle(t, heap[ss[t]][call[t].p])

\* Variant: the exponent is remembered, a repeated call does not ask the handle.
QueryExponent_SkipsOnHit(t) ==
  /\ pc[t] = "L119"
  /\ result' = [result EXCEPT ![t] = [NoResult EXCEPT !.kind = "returned", !.value = ConductorExponent(tmp[t])]]
  /\ trace' = IF call[t].p \in DOMAIN preMap[t][call[t].curve].d
                THEN trace
                ELSE [trace EXCEPT ![t] = Append(@, Ev("query", call[t].curve, call[t].p, tmp[t].vp, tmp[t].id))]
  /\ tmp' = [tmp EXCEPT ![t] = NoHandle]
  /\ pc' = [pc EXCEPT ![t] = "done"]
  /\ UNCHANGED <<baseField, attr, heap, nextHandle, calls, call, ss, vp, preMap, built, first, failed>>

\* line 119: <model>.conductor_exponent()
QueryExponent(t) ==
  /\ pc[t] = "L119"
  /\ result' = [result EXCEPT ![t] = [NoResult EXCEPT !.kind = "returned", !.value = ConductorExponent(tmp[t])]]
  /\ trace' = [trace EXCEPT ![t] = Append(@, Ev("query", call[t].curve, call[t].p, tmp[t].vp, tmp[t].id))]
  /\ tmp' = [tmp EXCEPT ![t] = NoHandle]
  /\ pc' = [pc EXCEPT ![t] = "done"]
  /\ UNCHANGED <<baseField, attr, heap, nextHandle, calls, call, ss, vp, preMap, built, first, failed>>

Step(t) ==
  \/ Call(t)
  \/ ReductionType(t)
  \/ CheckBaseField(t)
  \/ GetMapping(t)
  \/ Lookup(t)
  \/ MakeValuation(t)
  \/ BuildModel(t)
  \/ StoreModel(t)
  \/ SetAttr(t)
  \/ ReturnStored(t)
  \/ QueryExponent(t)

\* Sequential use: one caller, one call at a time.
Next == \E t \in SeqThreads : Step(t)

Spec == Init /\ [][Next]_vars

\* Interleaved use: two callers of semistable_model on the one curve "A", for
\* two different primes, no critical section between their lines.
ConcKeys == {<<"int", 2>>, <<"int", 3>>}

ConcCall(t) ==
  /\ pc[t] \in {"idle", "done"}
  /\ calls < MaxCalls
  /\ \E p \in ConcKeys :
       /\ call' = [call EXCEPT ![t] = [op |-> "semistable_model", curve |-> "A", p |-> p]]
       /\ preMap' = [preMap EXCEPT ![t] = [x \in Curves |-> Mapping(x)]]
  /\ calls' = calls + 1
  /\ pc' = [pc EXCEPT ![t] = "L76"]
  /\ result' = [result EXCEPT ![t] = NoResult]
  /\ trace' = [trace EXCEPT ![t] = << >>]
  /\ UNCHANGED <<baseField, attr, heap, nextHandle, ss, vp, tmp, built, first, failed>>

ConcStep(t) ==
  \/ ConcCall(t)
  \/ CheckBaseField(t)
  \/ GetMapping(t)
  \/ Lookup(t)
  \/ MakeValuation(t)
  \/ BuildModel(t)
  \/ StoreModel(t)
  \/ SetAttr(t)
  \/ ReturnStored(t)

ConcNext == \E t \in Threads : ConcStep(t)

ConcSpec == Init /\ [][ConcNext]_vars

\* ------------------------------------------------------------- type invariant
TypeOK ==
  /\ baseField \in [Curves -> Fields]
  /\ attr \in [Curves -> DictIds \cup {NoDict}]
  /\ DOMAIN heap \subseteq DictIds
  /\ \A c \in Curves : attr[c] # NoDict => attr[c] \in DOMAIN heap
  /\ \A t \in Threads : ss[t] # NoDict => ss[t] \in DOMAIN heap
  /\ \A d \in DOMAIN heap : DOMAIN heap[d] \subseteq Keys
  /\ calls \in 0 .. MaxCalls
  /\ nextHandle \in 1 .. (MaxCalls + 1)

\* --------------------------------------------------------- claim vocabulary
Done(t) == pc[t] = "done"

Returned(t) == Done(t) /\ result[t].kind = "returned"

Raised(t) == Done(t) /\ result[t].kind = "raised"

OverQQ(c) == baseField[c] = "QQ"

\* The call of t was a hit: p was a key of its curve's mapping at the start.
WasPresent(t) == call[t].p \in DOMAIN preMap[t][call[t].curve].d

\* Every curve's mapping is what it was when t's call started.
MappingsUntouched(t) == \A x \in Curves : Mapping(x) = preMap[t][x]

\* ------------------------------------------------------------------ claims
\* C1: on a curve over QQ, in sequential use, the model builder constructs at
\* most one handle per key, and every successful semistable_model(p) returns
\* the very handle the first successful call for p returned.
C1_OneHandlePerKey ==
  /\ \A c \in Curves, p \in Keys : built[c][p] <= 1
  /\ \A t \in Threads :
       (Returned(t) /\ call[t].op = "semistable_model" /\ OverQQ(call[t].curve))
         => /\ result[t].handle # NoHandle
            /\ result[t].handle = first[call[t].curve][call[t].p]

\* A second successful semistable_model(p): a hit after the key was built.
C1_Witness ==
  \E t \in Threads :
    /\ Returned(t) /\ call[t].op = "semistable_model" /\ WasPresent(t)
    /\ built[call[t].curve][call[t].p] = 1
    /\ result[t].handle = first[call[t].curve][call[t].p]

\* C2: on a curve whose base field is not QQ, semistable_model(p) never gets
\* past the base-field guard: it raises NotImplementedError, invokes no
\* collaborator, takes no reference to a mapping and leaves every mapping as
\* it was; the curve's mapping stays absent.
C2_UnsupportedBaseField ==
  /\ \A c \in Curves : ~OverQQ(c) => attr[c] = NoDict
  /\ \A t \in Threads :
       (call[t].op = "semistable_model" /\ ~OverQQ(call[t].curve))
         => /\ pc[t] \in {"L76", "done"}
            /\ trace[t] = << >>
            /\ ss[t] = NoDict
            /\ MappingsUntouched(t)
            /\ Done(t) => /\ result[t].kind = "raised"
                          /\ result[t].error = "NotImplementedError"
                          /\ result[t].handle = NoHandle

\* A later call on a curve over a number field has failed at the guard.
C2_Witness ==
  \E t \in Threads :
    /\ calls >= 2
    /\ Raised(t) /\ call[t].op = "semistable_model" /\ ~OverQQ(call[t].curve)
    /\ result[t].error = "NotImplementedError"

\* C3: the cache only grows.  In every step a present key stays present with
\* the same handle; a key becomes present only in the store/assignment steps
\* of a semistable_model call for that curve and key (which can no longer
\* fail); and a call that raised has left every mapping as it found it.
C3_Step ==
  \A c \in Curves, p \in Keys :
    /\ p \in KeysOf(c) => /\ p \in KeysOf(c)'
                          /\ Mapping(c)'.d[p] = Mapping(c).d[p]
    /\ (p \notin KeysOf(c) /\ p \in KeysOf(c)')
         => \E t \in Threads :
              /\ call[t].op \in {"semistable_model", "conductor_exponent"}
              /\ call[t].curve = c /\ call[t].p = p
              /\ pc[t] \in {"L87s", "L88"}
              /\ pc'[t] \in {"L88", "L89"}

C3_FailedCallsAddNothing ==
  \A t \in Threads : Raised(t) => MappingsUntouched(t)

C3_CacheOnlyGrows == [][C3_Step]_vars /\ []C3_FailedCallsAddNothing

\* Two keys are cached on a curve and a further call on it has failed.
C3_Witness ==
  \E t \in Threads :
    /\ Raised(t)
    /\ Cardinality(KeysOf(call[t].curve)) >= 2

\* C4: a hit has no side effects.  When p is a key of the mapping at the start
\* of semistable_model(p) on a curve over QQ, the call invokes no collaborator,
\* leaves every mapping unchanged and returns the stored handle.
C4_HitNoSideEffects ==
  \A t \in Threads :
    (call[t].op = "semistable_model" /\ OverQQ(call[t].curve) /\ WasPresent(t))
      => /\ pc[t] \in {"L76", "L79", "L83", "done"}
         /\ trace[t] = << >>
         /\ MappingsUntouched(t)
         /\ Done(t) => /\ result[t].kind = "returned"
                       /\ result[t].handle = preMap[t][call[t].curve].d[call[t].p]

\* A hit on a mapping that holds two keys has returned.
C4_Witness ==
  \E t \in Threads :
    /\ Returned(t) /\ call[t].op = "semistable_model" /\ WasPresent(t)
    /\ Cardinality(KeysOf(call[t].curve)) >= 2

TraceKinds(t) == [i \in 1 .. Len(trace[t]) |-> trace[t][i].ev]

IsPrefix(a, b) == Len(a) <= Len(b) /\ \A i \in 1 .. Len(a) : a[i] = b[i]

CountEv(t, kind) == Cardinality({i \in 1 .. Len(trace[t]) : trace[t][i].ev = kind})

Quiescent == \A t \in Threads : pc[t] \in {"idle", "done"}

\* C5: a miss of semistable_model(p) on a curve over QQ constructs the
\* valuation at p, then invokes the builder once with this curve and that
\* valuation, then stores the result under p, in this order; when it returns,
\* it returns that handle, built from the valuation of p's own prime, and the
\* curve's mapping is the previous mapping plus exactly the entry p -> handle.
C5_MissBuildsAndStores ==
  \A t \in Threads :
    (call[t].op = "semistable_model" /\ OverQQ(call[t].curve) /\ ~WasPresent(t))
      => LET c   == call[t].curve
             p   == call[t].p
             old == preMap[t][c].d
             hd  == result[t].handle IN
         /\ IsPrefix(TraceKinds(t), <<"valuation", "build", "store">>)
         /\ Returned(t) =>
              /\ trace[t] = << Ev("valuation", c, p, p[2], 0),
                               Ev("build", c, p, p[2], hd.id),
                               Ev("store", c, p, p[2], hd.id) >>
              /\ hd.id # 0 /\ hd.curve = c /\ hd.vp = p[2]
              /\ ~Mapping(c).absent
              /\ DOMAIN Mapping(c).d = (DOMAIN old) \cup {p}
              /\ Mapping(c).d[p] = hd
              /\ \A k \in DOMAIN old : Mapping(c).d[k] = old[k]
              /\ \A x \in Curves \ {c} : Mapping(x) = preMap[t][x]

\* A miss for the key 3 on a curve whose mapping already held another key has
\* returned.
C5_Witness ==
  \E t \in Threads :
    /\ Returned(t) /\ call[t].op = "semistable_model" /\ ~WasPresent(t)
    /\ call[t].p = <<"int", 3>>
    /\ DOMAIN preMap[t][call[t].curve].d # {}

\* C6: entries of distinct keys are independent.  Between calls, any two
\* distinct keys p1, p2 for which semistable_model has succeeded on a curve are
\* both keys of its mapping, each bound to the handle first returned for it,
\* the two handles are different objects and each was built exactly once.
C6_DistinctKeysIndependent ==
  Quiescent =>
    \A c \in Curves, p1 \in Keys, p2 \in Keys :
      (p1 # p2 /\ first[c][p1] # NoHandle /\ first[c][p2] # NoHandle)
        => /\ p1 \in KeysOf(c) /\ p2 \in KeysOf(c)
           /\ Mapping(c).d[p1] = first[c][p1]
           /\ Mapping(c).d[p2] = first[c][p2]
           /\ first[c][p1].id # first[c][p2].id
           /\ built[c][p1] = 1 /\ built[c][p2] = 1

\* The integer 2 and the ideal of 2 are both cached on a curve, and a third
\* call, for the integer again, was a hit.
C6_Witness ==
  \E t \in Threads :
    /\ Returned(t) /\ call[t].p = <<"int", 2>> /\ trace[t] = << >>
    /\ {<<"int", 2>>, <<"ideal", 2>>} \subseteq KeysOf(call[t].curve)
    /\ first[call[t].curve][<<"ideal", 2>>] # NoHandle

\* C7: a successful conductor_exponent(p) returns the exponent of the handle
\* semistable_model(p) yields, which is the handle first returned for p; it
\* queries that handle last; the builder ran once for p in all; and when p was
\* already cached the call constructs no valuation and no model.
C7_ConductorExponentDelegates ==
  \A t \in Threads :
    (Returned(t) /\ call[t].op = "conductor_exponent")
      => LET c == call[t].curve
             p == call[t].p
             n == Len(trace[t]) IN
         /\ p \in KeysOf(c)
         /\ result[t].value = Mapping(c).d[p].exp
         /\ result[t].value = first[c][p].exp
         /\ n >= 1 /\ trace[t][n].ev = "query" /\ trace[t][n].hid = first[c][p].id
         /\ CountEv(t, "query") = 1
         /\ built[c][p] = 1
         /\ WasPresent(t) => n = 1

\* A repeated conductor_exponent(p) has returned a non-zero exponent.
C7_Witness ==
  \E t \in Threads :
    /\ Returned(t) /\ call[t].op = "conductor_exponent" /\ WasPresent(t)
    /\ result[t].value = 1

\* C8: reduction_type(p) always ends at once with NotImplementedError,
\* whatever the curve's base field and mapping, invokes no collaborator and
\* leaves every mapping unchanged.
C8_ReductionTypeRaises ==
  \A t \in Threads :
    call[t].op = "reduction_type"
      => /\ Raised(t)
         /\ result[t].error = "NotImplementedError"
         /\ result[t].handle = NoHandle
         /\ trace[t] = << >>
         /\ ss[t] = NoDict
         /\ MappingsUntouched(t)

\* reduction_type(p) failed on a curve over QQ whose mapping contains p.
C8_Witness ==
  \E t \in Threads :
    /\ Raised(t) /\ call[t].op = "reduction_type"
    /\ OverQQ(call[t].curve)
    /\ call[t].p \in KeysOf(call[t].curve)

\* C9: a finished semistable_model or conductor_exponent call has exactly one
\* outcome, a returned handle/value or a raised error.  Each collaborator is
\* invoked at most once per call; the call raised ValueError exactly when its
\* valuation constructor failed and BuilderError exactly when its model
\* builder failed, and then nothing was returned.
C9_OneOutcome ==
  \A t \in Threads :
    (Done(t) /\ call[t].op \in {"semistable_model", "conductor_exponent"})
      => LET r == result[t]
             valFailed   == \E i \in 1 .. Len(trace[t]) :
                               trace[t][i].ev = "valuation" /\ trace[t][i].v = NoVal
             buildFailed == \E i \in 1 .. Len(trace[t]) :
                               trace[t][i].ev = "build" /\ trace[t][i].hid = 0 IN
         /\ r.kind \in {"returned", "raised"}
         /\ r.kind = "returned" =>
              /\ r.error = "none"
              /\ call[t].op = "semistable_model" => r.handle # NoHandle
              /\ call[t].op = "conductor_exponent" => CountEv(t, "query") = 1
         /\ r.kind = "raised" =>
              /\ r.handle = NoHandle /\ r.value = 0
              /\ r.error \in {"NotImplementedError", "ValueError", "BuilderError"}
              /\ CountEv(t, "store") = 0 /\ CountEv(t, "query") = 0
         /\ CountEv(t, "valuation") <= 1 /\ CountEv(t, "build") <= 1
         /\ valFailed <=> (r.kind = "raised" /\ r.error = "ValueError")
         /\ buildFailed <=> (r.kind = "raised" /\ r.error = "BuilderError")

\* conductor_exponent has ended with the model builder's error.
C9_Witness ==
  \E t \in Threads :
    /\ Raised(t) /\ call[t].op = "conductor_exponent"
    /\ result[t].error = "BuilderError"

\* C10: the mapping belongs to one curve.  A step of a call on one curve leaves
\* every other curve's attribute and mapping as they were; no two curves refer
\* to the same dictionary and no call holds a reference to another curve's
\* dictionary; every cached or returned handle was built for its own curve, and
\* handles cached on different curves are different objects.
ActsIn(t) == <<pc[t], call[t], result[t], trace[t], ss[t], vp[t], tmp[t]>>
               # <<pc[t], call[t], result[t], trace[t], ss[t], vp[t], tmp[t]>>'

C10_Step ==
  \A t \in Threads :
    ActsIn(t) => \A x \in Curves \ {call'[t].curve} :
                   attr'[x] = attr[x] /\ Mapping(x)' = Mapping(x)

C10_Owned ==
  /\ \A c \in Curves, x \in Curves : (c # x /\ attr[c] # NoDict) => attr[c] # attr[x]
  /\ \A t \in Threads : ss[t] # NoDict =>
       \A x \in Curves \ {call[t].curve} : attr[x] # ss[t]
  /\ \A c \in Curves : \A p \in KeysOf(c) :
       /\ Mapping(c).d[p].curve = c
       /\ built[c][p] >= 1
       /\ \A x \in Curves \ {c} : \A q \in KeysOf(x) :
            Mapping(x).d[q].id # Mapping(c).d[p].id
  /\ \A t \in Threads : (Returned(t) /\ call[t].op = "semistable_model")
       => result[t].handle.curve = call[t].curve

C10_PerInstance == [][C10_Step]_vars /\ []C10_Owned

\* The same key is cached on both curves; the call on B was a miss and built.
C10_Witness ==
  \E t \in Threads, p \in Keys :
    /\ Returned(t) /\ call[t].curve = "B" /\ call[t].p = p
    /\ ~WasPresent(t) /\ p \in DOMAIN preMap[t]["A"].d
    /\ p \in KeysOf("A") /\ p \in KeysOf("B")

\* The identity of the handle caller t's call has built, 0 if it built none.
BuiltBy(t) ==
  IF \E i \in 1 .. Len(trace[t]) : trace[t][i].ev = "build"
    THEN (CHOOSE e \in Range(trace[t]) : e.ev = "build").hid
    ELSE 0

\* Two callers have both missed and built for the same key of one curve, and
\* both have returned.
BothBuilt(t, u) ==
  /\ t # u
  /\ Returned(t) /\ Returned(u)
  /\ call[t].curve = call[u].curve /\ call[t].p = call[u].p
  /\ BuiltBy(t) # 0 /\ BuiltBy(u) # 0

\* C11: there is no critical section.  Every store puts the storing caller's
\* own handle under p in the dictionary it holds, replacing whatever another
\* caller stored there; and whenever two interleaved callers have both missed
\* for the same key, the builder ran at least twice for it, the two handles
\* built are different objects, and what the callers returned and what the
\* cache holds for p are among those two.
C11_StoreStep ==
  \A t \in Threads :
    (pc[t] = "L87s" /\ pc'[t] = "L88")
      => /\ call[t].p \in DOMAIN heap'[ss[t]]
         /\ heap'[ss[t]][call[t].p] = tmp[t]

C11_BothMissed ==
  \A t \in Threads, u \in Threads :
    BothBuilt(t, u)
      => LET c == call[t].curve
             p == call[t].p IN
         /\ built[c][p] >= 2
         /\ BuiltBy(t) # BuiltBy(u)
         /\ result[t].handle.id \in {BuiltBy(t), BuiltBy(u)}
         /\ result[u].handle.id \in {BuiltBy(t), BuiltBy(u)}
         /\ p \in KeysOf(c)
         /\ Mapping(c).d[p].id \in {BuiltBy(t), BuiltBy(u)}

C11_DuplicateBuild == [][C11_StoreStep]_vars /\ []C11_BothMissed

\* Both callers took the curve's existing dictionary, both missed for the same
\* key and built; the second store replaced the first caller's handle, so the
\* first caller holds a handle the cache no longer has.
C11_Witness ==
  \E t \in Threads, u \in Threads :
    /\ BothBuilt(t, u)
    /\ ~preMap[t][call[t].curve].absent /\ ~preMap[u][call[u].curve].absent
    /\ built[call[t].curve][call[t].p] = 2
    /\ result[t].handle # result[u].handle
    /\ result[t].handle.id = BuiltBy(t)
    /\ Mapping(call[t].curve).d[call[t].p] = result[u].handle

\* C12: conductor_exponent keeps nothing of its own.  A successful call,
\* repeated or not, queries the handle cached under p exactly once, as its last
\* step; a call whose semistable_model step raised (base field or collaborator)
\* has queried no handle; and the call changes the mappings as semistable_model
\* does: not at all on a hit or a failure, by exactly the entry p -> the handle
\* it built on a successful miss.
C12_ExponentNotCached ==
  \A t \in Threads :
    (Done(t) /\ call[t].op = "conductor_exponent")
      => LET c   == call[t].curve
             p   == call[t].p
             old == preMap[t][c].d
             n   == Len(trace[t]) IN
         /\ Raised(t) => /\ CountEv(t, "query") = 0
                         /\ result[t].error \in CollaboratorErrors \cup {"NotImplementedError"}
                         /\ MappingsUntouched(t)
         /\ Returned(t) =>
              /\ CountEv(t, "query") = 1
              /\ trace[t][n].ev = "query"
              /\ p \in KeysOf(c) /\ trace[t][n].hid = Mapping(c).d[p].id
              /\ WasPresent(t) => MappingsUntouched(t)
              /\ ~WasPresent(t) =>
                   /\ DOMAIN Mapping(c).d = (DOMAIN old) \cup {p}
                   /\ Mapping(c).d[p].id = BuiltBy(t)
                   /\ \A k \in DOMAIN old : Mapping(c).d[k] = old[k]
                   /\ \A x \in Curves \ {c} : Mapping(x) = preMap[t][x]

\* A third call in a row, conductor_exponent(p) on a cached p, has queried the
\* handle once more.
C12_Witness ==
  \E t \in Threads :
    /\ calls = 3
    /\ Returned(t) /\ call[t].op = "conductor_exponent" /\ WasPresent(t)
    /\ CountEv(t, "query") = 1 /\ Len(trace[t]) = 1

\* C13: failures are not cached.  A semistable_model or conductor_exponent call
\* in which the valuation constructor or the model builder raised leaves every
\* mapping exactly as it was (p is no key, an absent attribute stays absent, the
\* dictionary the call made is gone).  Between calls a key for which calls have
\* only failed is not in the mapping, so the next call for it misses; and every
\* miss on a curve over QQ invokes the valuation constructor again.
C13_FailuresNotCached ==
  /\ \A t \in Threads :
       (Raised(t) /\ call[t].op \in {"semistable_model", "conductor_exponent"}
          /\ result[t].error \in CollaboratorErrors)
         => /\ MappingsUntouched(t)
            /\ call[t].p \notin KeysOf(call[t].curve)
            /\ preMap[t][call[t].curve].absent => attr[call[t].curve] = NoDict
            /\ <<call[t].curve, call[t].p>> \in failed
  /\ Quiescent =>
       /\ \A c \in Curves, p \in Keys :
            (<<c, p>> \in failed /\ first[c][p] = NoHandle) => p \notin KeysOf(c)
       /\ DOMAIN heap = {attr[c] : c \in {x \in Curves : attr[x] # NoDict}}
  /\ \A t \in Threads :
       (Done(t) /\ call[t].op \in {"semistable_model", "conductor_exponent"}
          /\ OverQQ(call[t].curve) /\ ~WasPresent(t))
         => CountEv(t, "valuation") = 1

\* After a call for p in which a collaborator raised, a further
\* semistable_model(p) missed again, invoked the collaborators and built.
C13_Witness ==
  \E t \in Threads :
    /\ Returned(t) /\ call[t].op = "semistable_model"
    /\ <<call[t].curve, call[t].p>> \in failed
    /\ ~WasPresent(t) /\ BuiltBy(t) # 0
    /\ built[call[t].curve][call[t].p] = 1

\* Every dictionary a call on c holds is the one c's attribute refers to.
AllHoldCurrent(c) ==
  /\ attr[c] # NoDict
  /\ \A u \in Threads : (call[u].curve = c /\ ss[u] # NoDict) => ss[u] = attr[c]

\* C14 as stated: once the mapping attribute exists, a call that started then
\* and returned a handle for p does not lose its entry.
C14_NoLossOnceAttrExists ==
  \A t \in Threads :
    (Returned(t) /\ ~preMap[t][call[t].curve].absent)
      => call[t].p \in KeysOf(call[t].curve)

\* C14, amended: a key leaves a curve's mapping only when line 88 assigns a
\* dictionary other than the curve's current one (held by a call that found no
\* attribute, or an older one); once the attribute exists and every call in
\* flight holds the curve's current dictionary, this stays so and no entry is
\* lost.
C14_LossOnlyByStaleAssign ==
  \A c \in Curves :
    /\ \A p \in KeysOf(c) :
         p \notin KeysOf(c)'
           => \E t \in Threads :
                /\ call[t].curve = c
                /\ pc[t] = "L88" /\ pc'[t] = "L89"
                /\ ss[t] # attr[c]
    /\ AllHoldCurrent(c) => /\ AllHoldCurrent(c)'
                            /\ \A p \in KeysOf(c) : p \in KeysOf(c)'

C14_LostUpdateOnFirstUseOnly == [][C14_LossOnlyByStaleAssign]_vars

\* Two interleaved calls for distinct keys both started without a mapping and
\* both returned; the entry of one was lost, and a later call for that key, with
\* the attribute now present, built a second, different handle.
C14_Witness ==
  \E t \in Threads, u \in Threads :
    /\ t # u /\ Returned(t) /\ Returned(u)
    /\ call[t].curve = call[u].curve /\ call[t].p # call[u].p
    /\ preMap[u][call[u].curve].absent
    /\ ~preMap[t][call[t].curve].absent /\ ~WasPresent(t)
    /\ built[call[t].curve][call[t].p] = 2
    /\ first[call[t].curve][call[t].p] # NoHandle
    /\ result[t].handle # first[call[t].curve][call[t].p]
    /\ {call[t].p, call[u].p} \subseteq KeysOf(call[t].curve)

\* The primes for which a semistable_model call on c, direct or from
\* conductor_exponent, has returned a handle.
Succeeded(c) == {p \in Keys : first[c][p] # NoHandle}

\* C15: in sequential use, between calls, the key set of a curve's mapping is
\* exactly the set of primes for which semistable_model or conductor_exponent
\* has succeeded on it, and the attribute exists exactly when that set is not
\* empty; at no time does the attribute refer to an empty dictionary.
C15_KeysAreSuccesses ==
  /\ Quiescent =>
       \A c \in Curves :
         /\ KeysOf(c) = Succeeded(c)
         /\ HasAttr(c) <=> Succeeded(c) # {}
  /\ \A c \in Curves : attr[c] # NoDict => DOMAIN heap[attr[c]] # {}

\* After three calls on one curve, two primes are cached and a third key, whose
\* call failed in a collaborator, is not.
C15_Witness ==
  /\ Quiescent
  /\ \E c \in Curves, p \in Keys :
       /\ Cardinality(KeysOf(c)) = 2
       /\ <<c, p>> \in failed /\ p \notin KeysOf(c)
       /\ KeysOf(c) = Succeeded(c)
====
